---- MODULE Spec2Model ----
(***************************************************************************)
(* etcbuild: the package resolver / fetcher (PackageManager.py) and the    *)
(* builder registry with its build strategies (BuilderFactory.py).         *)
(*                                                                         *)
(* Strings that the code takes apart (URIs, file names) are sequences of   *)
(* tokens; a token is a TLA+ string.  Python dicts are records; None is a  *)
(* distinguished value.  File contents are sequences of bytes.             *)
(***************************************************************************)
EXTENDS Integers, Sequences, FiniteSets, TLC

VARIABLES
    pkgs,        \* PackageManager._pkgs: package name -> list of dicts
    manifest,    \* the manifest file as json.load read it (never written)
    files,       \* the package cache directory: file name -> content
    downloads,   \* number of HTTP downloads performed so far
    watch,       \* one earlier get() call and the descriptor it returned
    last,        \* the most recent call: its arguments and its outcome
    factory,     \* BuilderFactory: automatic_cleanup, env["target"], env["prefix"]
    dirs,        \* the build directories that exist under /tmp/etcbuild
    builders     \* the live build strategy instances, by build directory

vars == <<pkgs, manifest, files, downloads, watch, last, factory, dirs, builders>>

pmVars == <<pkgs, manifest, files, downloads, watch>>
bfVars == <<factory, dirs, builders>>

----------------------------------------------------------------------------
(* Bounds of the model *)

MaxRecords == 2      \* longest version list of a package in the manifest
MaxFileLen == 1      \* longest file content, in bytes
MaxDownloads == 2    \* downloads performed in one run
MaxDirs == 2         \* distinct values os.urandom(8).hex() takes in one run
MaxLive == 1         \* build strategy instances alive at the same time

----------------------------------------------------------------------------
(* Values *)

None == "None"                     \* Python's None
PH == "{{version}}"                \* the placeholder of a URI template
NoException == "ok"

\* version strings of the manifest: literal text, without a placeholder
Versions == {"9.3.0", "10.1.0"}
ManifestNames == {"binutils", "gcc"}
RequestNames == ManifestNames \cup {"newlib"}

Templates ==
    { <<"https:", "/", "gnu.org", "/", "src-", PH, "/", "src-", PH, ".tar.gz">>,
      <<"https:", "/", "gnu.org", "/", "snapshot", ".tar.xz">> }

Bytes == 0 .. 1
Contents == UNION { [1 .. n -> Bytes] : n \in 0 .. MaxFileLen }

PackageDir == <<"/", "home", "/", "packages">>     \* self._package_dir

----------------------------------------------------------------------------
(* String helpers *)

RECURSIVE Replace(_, _, _)
\* str.replace(old, new) where old is one token
Replace(s, old, new) ==
    IF s = <<>> THEN <<>>
    ELSE (IF Head(s) = old THEN <<new>> ELSE <<Head(s)>>) \o Replace(Tail(s), old, new)

RECURSIVE Basename(_)
\* os.path.basename: what follows the last "/"
Basename(s) ==
    IF \E i \in 1 .. Len(s) : s[i] = "/"
    THEN Basename(Tail(s))
    ELSE s

EndsWith(s, suffix) == Len(s) > 0 /\ s[Len(s)] = suffix

----------------------------------------------------------------------------
(* ArchiveVerifier: PackageManager._get_hashval *)

RECURSIVE HashUpdate(_, _)
\* hashval.update(chunk) for every byte read; the state is a number that
\* determines the bytes fed so far, as a collision-free digest does
HashUpdate(h, data) ==
    IF data = <<>> THEN h
    ELSE HashUpdate(3 * h + Head(data) + 1, Tail(data))

GetHashval(content) == HashUpdate(0, content)

----------------------------------------------------------------------------
(* PackageManager.__init__ *)

Records == [uri : Templates, version : Versions, sha384 : {GetHashval(<<1>>)}]
RecordLists == UNION { [1 .. n -> Records] : n \in 1 .. MaxRecords }
\* binutils has one release in the manifest, gcc up to MaxRecords
Manifests == { m \in [ManifestNames -> RecordLists] : Len(m["binutils"]) = 1 }
\* the manifests of the fetcher's runs: one release of each package
SingleReleaseManifests == { m \in Manifests : \A n \in ManifestNames : Len(m[n]) = 1 }

NoCall == [op |-> "none"]
NoWatch == [set |-> FALSE]

PMInit(m) ==
    /\ manifest = m
    /\ pkgs = m
    /\ files = << >>
    /\ downloads = 0
    /\ watch = NoWatch
    /\ last = NoCall

----------------------------------------------------------------------------
(* PackageManager.get *)

\* the index of the record pkgs_by_version[version] names: of the records
\* with that version the dict comprehension keeps the last one
ByVersion(lst, version) ==
    LET hits == { i \in 1 .. Len(lst) : lst[i].version = version }
    IN  IF hits = {} THEN 0 ELSE CHOOSE i \in hits : \A j \in hits : j <= i

\* a get() that falls back to the latest record when the version is unknown
LookupFallback(p, pkgname, version) ==
    IF pkgname \notin DOMAIN p
    THEN [exc |-> "PackageNameNotPresentException", index |-> 0]
    ELSE IF version # None /\ ByVersion(p[pkgname], version) # 0
    THEN [exc |-> NoException, index |-> ByVersion(p[pkgname], version)]
    ELSE [exc |-> NoException, index |-> Len(p[pkgname])]

\* lines 44-54: the record get() selects, or the exception it raises
Lookup(p, pkgname, version) ==
    IF pkgname \notin DOMAIN p
    THEN [exc |-> "PackageNameNotPresentException", index |-> 0]
    ELSE IF version # None
    THEN IF ByVersion(p[pkgname], version) = 0
         THEN [exc |-> "PackageVersionNotPresentException", index |-> 0]
         ELSE [exc |-> NoException, index |-> ByVersion(p[pkgname], version)]
    ELSE [exc |-> NoException, index |-> Len(p[pkgname])]

\* a get() that names the local file before it expands the template
ResolveTemplateBasename(pkg, pkgname) ==
    [pkgname |-> pkgname,
     local_filename |-> PackageDir \o <<"/">> \o Basename(pkg.uri)]
    @@ [pkg EXCEPT !.uri = Replace(pkg.uri, PH, pkg.version)]

\* lines 56-60: the selected dict is changed in place
Resolve(pkg, pkgname) ==
    LET uri == Replace(pkg.uri, PH, pkg.version)
    IN  [pkgname |-> pkgname,
         local_filename |-> PackageDir \o <<"/">> \o Basename(uri)]
        @@ [pkg EXCEPT !.uri = uri]

\* watched: the model remembers this call, to compare later calls with it
Get(pkgname, version, watched) ==
    LET sel == Lookup(pkgs, pkgname, version)
        i == sel.index
    IN  /\ IF sel.exc # NoException
           THEN /\ pkgs' = pkgs
                /\ last' = [op |-> "get", pkgname |-> pkgname, version |-> version,
                            exc |-> sel.exc]
                /\ watch' = watch
           ELSE LET pkg == Resolve(pkgs[pkgname][i], pkgname)
                IN  /\ pkgs' = [pkgs EXCEPT ![pkgname][i] = pkg]
                    /\ last' = [op |-> "get", pkgname |-> pkgname, version |-> version,
                                exc |-> sel.exc, index |-> i, ret |-> pkg]
                    /\ watch' = IF watched /\ ~watch.set
                                 THEN [set |-> TRUE, pkgname |-> pkgname,
                                       version |-> version, index |-> i, ret |-> pkg]
                                 ELSE watch
       /\ UNCHANGED <<manifest, files, downloads, bfVars>>

RequestVersions == Versions \cup {None, "8.4.0"}

GetAny == \E pkgname \in RequestNames, version \in RequestVersions :
              Get(pkgname, version, FALSE)

GetWatched == \E pkgname \in RequestNames, version \in RequestVersions :
                  Get(pkgname, version, TRUE)

----------------------------------------------------------------------------
(* PackageManager.is_present, download, retrieve *)

\* the descriptors a caller holds: the dicts get() has returned
Descriptors ==
    { d \in [pkgname : DOMAIN pkgs, index : 1 .. MaxRecords + 1] :
        /\ d.index <= Len(pkgs[d.pkgname])
        /\ "local_filename" \in DOMAIN pkgs[d.pkgname][d.index] }

Exists(f, filename) == filename \in DOMAIN f

Unlink(f, filename) == [n \in DOMAIN f \ {filename} |-> f[n]]

WriteFile(f, filename, content) == (filename :> content) @@ f

\* the file before a call, for the record of the call
Stat(f, filename) ==
    IF Exists(f, filename) THEN [exists |-> TRUE, content |-> f[filename]]
    ELSE [exists |-> FALSE]

\* an is_present() that ignores delete_wrong_hash and always deletes
IsPresentAlwaysDelete(f, pkg, delete_wrong_hash) ==
    IF ~Exists(f, pkg.local_filename) THEN [ret |-> FALSE, files |-> f]
    ELSE IF GetHashval(f[pkg.local_filename]) # pkg.sha384
    THEN [ret |-> FALSE, files |-> Unlink(f, pkg.local_filename)]
    ELSE [ret |-> TRUE, files |-> f]

\* lines 75-87: the result and the cache directory after the call
IsPresentOp(f, pkg, delete_wrong_hash) ==
    IF ~Exists(f, pkg.local_filename) THEN [ret |-> FALSE, files |-> f]
    ELSE IF GetHashval(f[pkg.local_filename]) # pkg.sha384
    THEN [ret |-> FALSE,
          files |-> IF delete_wrong_hash THEN Unlink(f, pkg.local_filename) ELSE f]
    ELSE [ret |-> TRUE, files |-> f]

IsPresent(d, delete_wrong_hash) ==
    LET pkg == pkgs[d.pkgname][d.index]
        r == IsPresentOp(files, pkg, delete_wrong_hash)
    IN  /\ files' = r.files
        /\ last' = [op |-> "is_present", pkg |-> pkg,
                    delete_wrong_hash |-> delete_wrong_hash,
                    pre |-> Stat(files, pkg.local_filename), ret |-> r.ret]
        /\ UNCHANGED <<pkgs, manifest, downloads, watch, bfVars>>

\* lines 90-92: the file is opened for writing (created or truncated), then
\* the response body is written chunk by chunk; the request may fail before
\* the first chunk or between two chunks, leaving what was written so far
DownloadOp(f, pkg, body, raised) ==
    [files |-> WriteFile(f, pkg.local_filename, body),
     exc |-> IF raised THEN "RequestException" ELSE NoException]

Download(d, body, raised) ==
    LET pkg == pkgs[d.pkgname][d.index]
        r == DownloadOp(files, pkg, body, raised)
    IN  /\ downloads < MaxDownloads
        /\ files' = r.files
        /\ downloads' = downloads + 1
        /\ last' = [op |-> "download", pkg |-> pkg, exc |-> r.exc]
        /\ UNCHANGED <<pkgs, manifest, watch, bfVars>>

\* a retrieve() that trusts what it has just downloaded
RecheckSkipped(f, pkg, verify) == [ret |-> TRUE, files |-> f]

\* line 98: the check after the download
Recheck(f, pkg, verify) == IsPresentOp(f, pkg, verify)

\* a retrieve() without the early return of line 96
RetrieveNoEarlyReturn(f, pkg, verify, body, raised) ==
    LET dl == DownloadOp(f, pkg, body, raised)
        second == Recheck(dl.files, pkg, verify)
    IN  IF dl.exc # NoException
        THEN [files |-> dl.files, exc |-> dl.exc, downloaded |-> TRUE]
        ELSE IF ~second.ret /\ verify
        THEN [files |-> second.files, exc |-> "PackageDownloadFailedException",
              downloaded |-> TRUE]
        ELSE [files |-> second.files, exc |-> NoException, downloaded |-> TRUE]

\* lines 95-102
RetrieveOp(f, pkg, verify, body, raised) ==
    LET first == IsPresentOp(f, pkg, TRUE)
        dl == DownloadOp(first.files, pkg, body, raised)
        second == Recheck(dl.files, pkg, verify)
    IN  IF first.ret
        THEN [files |-> f, exc |-> NoException, downloaded |-> FALSE]
        ELSE IF dl.exc # NoException
        THEN [files |-> dl.files, exc |-> dl.exc, downloaded |-> TRUE]
        ELSE IF ~second.ret /\ verify
        THEN [files |-> second.files, exc |-> "PackageDownloadFailedException",
              downloaded |-> TRUE]
        ELSE [files |-> second.files, exc |-> NoException, downloaded |-> TRUE]

Retrieve(d, verify, body, raised) ==
    LET pkg == pkgs[d.pkgname][d.index]
        r == RetrieveOp(files, pkg, verify, body, raised)
    IN  /\ r.downloaded => downloads < MaxDownloads
        /\ files' = r.files
        /\ downloads' = IF r.downloaded THEN downloads + 1 ELSE downloads
        /\ last' = [op |-> "retrieve", pkg |-> pkg, verify |-> verify,
                    pre |-> Stat(files, pkg.local_filename),
                    body |-> IF r.downloaded THEN body ELSE << >>,
                    downloaded |-> r.downloaded,
                    downloads_before |-> downloads, exc |-> r.exc]
        /\ UNCHANGED <<pkgs, manifest, watch, bfVars>>

IsPresentAny == \E d \in Descriptors, delete_wrong_hash \in BOOLEAN :
                    IsPresent(d, delete_wrong_hash)

DownloadAny == \E d \in Descriptors, body \in Contents, raised \in BOOLEAN :
                   Download(d, body, raised)

RetrieveAny == \E d \in Descriptors, verify \in BOOLEAN, body \in Contents,
                  raised \in BOOLEAN :
                   Retrieve(d, verify, body, raised)

----------------------------------------------------------------------------
(* BuilderFactory and the build strategies *)

NamedTargets == {"7tdmi", "cortex-m0", "cortex-m1", "cortex-m3", "cortex-m4",
                 "avr", "blackfin"}
Targets == NamedTargets \cup {"msp430", "riscv32-elf"}

Flags == {"c++", "prebuild"}

\* BuilderFactory._REGISTRY after the two @BuilderFactory.register decorators
Registry == [binutils |-> "BinutilsBuilder", gcc |-> "GCCBuilder"]

\* the descriptors handed to get_builder: what get() returns for a release
BuildRecords == { r \in Records : r.version = "10.1.0" }
BuildDescriptors == { Resolve(r, n) : r \in BuildRecords, n \in RequestNames }

DirNames == 1 .. MaxDirs       \* the values of os.urandom(8).hex()

In(cmd, option) == \E i \in 1 .. Len(cmd) : cmd[i] = option

ArmTargets == {"7tdmi", "cortex-m0", "cortex-m1", "cortex-m3", "cortex-m4"}

\* BinutilsBuilder.build, lines 124-142
BinutilsConfigure(env) ==
    <<"./configure", "--prefix=" \o env.prefix>>
    \o (IF env.target \in ArmTargets
        THEN <<"--target=arm-none-eabi">>
             \o (IF env.target = "7tdmi"
                 THEN <<"--enable-interwork", "--enable-multilib">>
                 ELSE <<"--enable-thumb", "--disable-interwork", "--disable-multilib">>)
        ELSE IF env.target = "avr" THEN <<"--target=avr">>
        ELSE IF env.target = "blackfin" THEN <<"--target=bfin", "--without-gnu-ld">>
        ELSE <<"--target=" \o env.target>>)
    \o <<"--disable-nls", "--disable-libssp">>

\* a language choice that looks at the "c++" flag alone
GCCLanguagesIgnorePrebuild(flags) ==
    IF "c++" \in flags
    THEN <<"--enable-languages=c,c++">>
    ELSE <<"--enable-languages=c">>

\* GCCBuilder.build, lines 183-186
GCCLanguages(flags) ==
    IF "c++" \in flags /\ "prebuild" \notin flags
    THEN <<"--enable-languages=c,c++">>
    ELSE <<"--enable-languages=c">>

\* GCCBuilder.build, lines 166-181
GCCTargetOptions(env) ==
    IF env.target \in ArmTargets
    THEN <<"--target=arm-none-eabi", "--with-newlib">>
         \o (IF env.target = "7tdmi"
             THEN <<"--enable-interwork", "--enable-multilib">> ELSE << >>)
         \o (IF env.target \in {"cortex-m0", "cortex-m3", "cortex-m4"}
             THEN <<"--with-cpu=" \o env.target, "--disable-interwork", "--disable-multilib">>
             ELSE << >>)
         \o (IF env.target \in {"cortex-m0", "cortex-m3"}
             THEN <<"--with-float=soft", "--with-mode=thumb">>
             ELSE IF env.target \in {"cortex-m4"}
             THEN <<"--with-fpu=fpv4-sp-d16", "--with-float=hard", "--with-mode=thumb">>
             ELSE << >>)
    ELSE IF env.target = "avr" THEN <<"--target=avr">>
    ELSE << >>

\* GCCBuilder.build, lines 153-188
GCCConfigure(env, flags) ==
    <<"../configure", "--prefix=" \o env.prefix>>
    \o (IF "prebuild" \in flags THEN <<"--without-headers">> ELSE << >>)
    \o <<"--with-gnu-ld", "--with-gnu-as", "--with-dwarf2", "--disable-werror",
         "--disable-threads", "--disable-nls", "--disable-shared", "--disable-libssp",
         "--disable-libmudflap", "--disable-libgomp">>
    \o GCCTargetOptions(env)
    \o GCCLanguages(flags)
    \o <<"--with-system-zlib", "--enable-target-optspace">>

Configure(cls, env, flags) ==
    IF cls = "GCCBuilder" THEN GCCConfigure(env, flags) ELSE BinutilsConfigure(env)

\* GenericBuilder.execute_make
MakeCommand(env) == <<"make", "-j" \o ToString(env.concurrent_processes)>>

\* GenericBuilder.extractdir, and the cwd of install
ExtractDir(b) == <<b.builddir, b.pkg.pkgname \o "-" \o b.pkg.version>>
InstallDir(b) == IF b.cls = "GCCBuilder" THEN ExtractDir(b) \o <<"build">> ELSE ExtractDir(b)

Remove(bs, builddir) == [d \in DOMAIN bs \ {builddir} |-> bs[d]]

\* a get_builder() that falls back to the base class for an unknown package
GetBuilderGeneric(bs, ds, pkg, flags, rnd) ==
    IF rnd \in ds
    THEN [exc |-> "FileExistsError", builders |-> bs, dirs |-> ds]
    ELSE [exc |-> NoException,
          builders |-> (rnd :> [cls |-> IF pkg.pkgname \in DOMAIN Registry
                                        THEN Registry[pkg.pkgname]
                                        ELSE "GenericBuilder",
                                pkg |-> pkg, flags |-> flags, builddir |-> rnd,
                                st |-> "Created"]) @@ bs,
          dirs |-> ds \cup {rnd}]

\* BuilderFactory.get_builder with GenericBuilder.__init__: the registry
\* lookup, then the constructor, whose os.makedirs raises when the directory
\* exists already
GetBuilderOp(bs, ds, pkg, flags, rnd) ==
    IF pkg.pkgname \notin DOMAIN Registry
    THEN [exc |-> "NoBuilderPresentException", builders |-> bs, dirs |-> ds]
    ELSE IF rnd \in ds
    THEN [exc |-> "FileExistsError", builders |-> bs, dirs |-> ds]
    ELSE [exc |-> NoException,
          builders |-> (rnd :> [cls |-> Registry[pkg.pkgname], pkg |-> pkg,
                                flags |-> flags, builddir |-> rnd,
                                st |-> "Created"]) @@ bs,
          dirs |-> ds \cup {rnd}]

GetBuilder(pkg, flags, rnd) ==
    LET r == GetBuilderOp(builders, dirs, pkg, flags, rnd)
    IN  /\ Cardinality(DOMAIN builders) < MaxLive
        /\ builders' = r.builders
        /\ dirs' = r.dirs
        /\ last' = [op |-> "get_builder", pkg |-> pkg, exc |-> r.exc]
        /\ UNCHANGED <<pmVars, factory>>

\* GenericBuilder.unpack; rc is the exit status of tar
Unpack(d, rc) ==
    LET b == builders[d]
        exc == IF ~EndsWith(b.pkg.local_filename, ".tar.gz") THEN "NotImplementedError"
               ELSE IF rc # 0 THEN "CalledProcessError" ELSE NoException
    IN  /\ b.st = "Created"
        /\ builders' = [builders EXCEPT ![d].st =
                            IF exc = NoException THEN "Unpacked" ELSE "Failed"]
        /\ last' = [op |-> "unpack", builddir |-> d, exc |-> exc]
        /\ UNCHANGED <<pmVars, factory, dirs>>

\* BinutilsBuilder.build and GCCBuilder.build; failed is the number of the
\* command that exits non-zero (1 configure, 2 make), 0 when none does
Build(d, failed) ==
    LET b == builders[d]
        cmds == <<Configure(b.cls, factory, b.flags), MakeCommand(factory)>>
    IN  /\ b.st = "Unpacked"
        /\ builders' = [builders EXCEPT ![d].st = IF failed = 0 THEN "Built" ELSE "Failed"]
        /\ last' = [op |-> "build", builddir |-> d,
                    executed |-> IF failed = 1 THEN SubSeq(cmds, 1, 1) ELSE cmds,
                    exc |-> IF failed = 0 THEN NoException ELSE "CalledProcessError"]
        /\ UNCHANGED <<pmVars, factory, dirs>>

\* GenericBuilder.install and GCCBuilder.install; rc is make's exit status
Install(d, rc) ==
    LET b == builders[d]
    IN  /\ b.st = "Built"
        /\ builders' = [builders EXCEPT ![d].st = IF rc = 0 THEN "Installed" ELSE "Failed"]
        /\ last' = [op |-> "install", builddir |-> d, cwd |-> InstallDir(b),
                    exc |-> IF rc = 0 THEN NoException ELSE "CalledProcessError"]
        /\ UNCHANGED <<pmVars, factory, dirs>>

\* an __exit__ that cleans up only after a completed install
ExitOnSuccessOnly(ds, fac, b) ==
    IF fac.automatic_cleanup /\ b.st = "Installed" THEN ds \ {b.builddir} ELSE ds

\* GenericBuilder.__exit__
ExitOp(ds, fac, b) ==
    IF fac.automatic_cleanup THEN ds \ {b.builddir} ELSE ds

\* the with statement ends: after any step, or when a step has raised
Exit(d) ==
    LET b == builders[d]
    IN  /\ dirs' = ExitOp(dirs, factory, b)
        /\ builders' = Remove(builders, d)
        /\ last' = [op |-> "exit", builddir |-> d, st |-> b.st]
        /\ UNCHANGED <<pmVars, factory>>

ExitCodes == {0, 2}

GetBuilderAny == \E pkg \in BuildDescriptors, flags \in SUBSET Flags, rnd \in DirNames :
                     GetBuilder(pkg, flags, rnd)
UnpackAny == \E d \in DOMAIN builders, rc \in ExitCodes : Unpack(d, rc)
BuildAny == \E d \in DOMAIN builders, failed \in 0 .. 2 : Build(d, failed)
InstallAny == \E d \in DOMAIN builders, rc \in ExitCodes : Install(d, rc)
ExitAny == \E d \in DOMAIN builders : Exit(d)

----------------------------------------------------------------------------
\* BuilderFactory.__init__
BFInit(automatic_cleanup, target) ==
    /\ factory = [automatic_cleanup |-> automatic_cleanup, target |-> target,
                  prefix |-> "/opt/cross", concurrent_processes |-> 1]
    /\ dirs = {}
    /\ builders = << >>

InitResolve ==
    /\ \E m \in Manifests : PMInit(m)
    /\ BFInit(TRUE, "avr")

NextResolve == GetAny \/ GetWatched

SpecResolve == InitResolve /\ [][NextResolve]_vars

InitFetch ==
    /\ \E m \in SingleReleaseManifests : PMInit(m)
    /\ BFInit(TRUE, "avr")

NextFetch ==
    \/ GetAny
    \/ IsPresentAny
    \/ DownloadAny
    \/ RetrieveAny

SpecFetch == InitFetch /\ [][NextFetch]_vars

InitBuild ==
    /\ PMInit(CHOOSE m \in SingleReleaseManifests :
                  \A n \in ManifestNames : m[n][1] \in BuildRecords)
    /\ \E automatic_cleanup \in BOOLEAN, target \in Targets :
            BFInit(automatic_cleanup, target)

NextBuild ==
    \/ GetBuilderAny
    \/ UnpackAny
    \/ BuildAny
    \/ InstallAny
    \/ ExitAny

SpecBuild == InitBuild /\ [][NextBuild]_vars

----------------------------------------------------------------------------
(* Properties of the package fetcher, under SpecFetch *)

LastFile == last.pkg.local_filename

\* C1: when retrieve(pkg, verify=True) returns without raising, the file
\* pkg["local_filename"] exists and its digest equals pkg["sha384"], whatever
\* the cache file was before and whatever the download delivered; when the
\* check after a completed download fails, it raises
\* PackageDownloadFailedException.
C1_RetrieveVerified ==
    (last.op = "retrieve" /\ last.verify) =>
        /\ last.exc = NoException =>
               /\ Exists(files, LastFile)
               /\ GetHashval(files[LastFile]) = last.pkg.sha384
        /\ (last.downloaded /\ last.exc # "RequestException"
                /\ GetHashval(last.body) # last.pkg.sha384) =>
               last.exc = "PackageDownloadFailedException"

\* retrieve(verify=True) returned normally after replacing a corrupt file
C1_Witness ==
    /\ last.op = "retrieve" /\ last.verify /\ last.exc = NoException
    /\ last.downloaded
    /\ last.pre.exists /\ GetHashval(last.pre.content) # last.pkg.sha384
    /\ Exists(files, LastFile)

\* C2: retrieve() on an artifact that is present with the manifest's digest
\* downloads nothing and leaves the cached file as it was, for either value
\* of verify and however often it is called.
C2_RetrieveIdempotent ==
    (last.op = "retrieve" /\ last.pre.exists
        /\ GetHashval(last.pre.content) = last.pkg.sha384) =>
        /\ ~last.downloaded
        /\ downloads = last.downloads_before
        /\ last.exc = NoException
        /\ Exists(files, LastFile)
        /\ files[LastFile] = last.pre.content

\* retrieve(verify=False) on a file that an earlier download has cached
C2_Witness ==
    /\ last.op = "retrieve" /\ ~last.verify
    /\ last.pre.exists /\ GetHashval(last.pre.content) = last.pkg.sha384
    /\ downloads > 0
    /\ ~last.downloaded

\* C3: is_present on a cached file whose digest differs from the manifest's
\* returns false; the file is deleted when delete_wrong_hash is set and left
\* in place when it is not.
C3_MismatchDetected ==
    (last.op = "is_present" /\ last.pre.exists
        /\ GetHashval(last.pre.content) # last.pkg.sha384) =>
        /\ last.ret = FALSE
        /\ last.delete_wrong_hash => ~Exists(files, LastFile)
        /\ ~last.delete_wrong_hash =>
               Exists(files, LastFile) /\ files[LastFile] = last.pre.content

\* is_present(delete_wrong_hash=False) has found a corrupt file and kept it
C3_Witness ==
    /\ last.op = "is_present" /\ ~last.delete_wrong_hash
    /\ last.pre.exists /\ GetHashval(last.pre.content) # last.pkg.sha384
    /\ ~last.ret
    /\ Exists(files, LastFile)

----------------------------------------------------------------------------
(* Properties of the package resolver, under SpecResolve *)

HasVersion(lst, version) == \E i \in 1 .. Len(lst) : lst[i].version = version

\* C5: get() of a known package with an explicit version that no record of
\* the package carries raises PackageVersionNotPresentException; a record is
\* returned for an explicit version only if it carries that version, so the
\* latest record is not a fallback.
C5_UnknownVersionFails ==
    (last.op = "get" /\ last.pkgname \in DOMAIN manifest /\ last.version # None) =>
        /\ ~HasVersion(manifest[last.pkgname], last.version) =>
               last.exc = "PackageVersionNotPresentException"
        /\ last.exc = NoException => last.ret.version = last.version

\* get() has refused an unknown version of a package with two releases
C5_Witness ==
    /\ last.op = "get" /\ last.pkgname = "gcc" /\ last.version = "8.4.0"
    /\ Len(manifest["gcc"]) = 2
    /\ last.exc = "PackageVersionNotPresentException"

C10_RecordsImmutable == pkgs = manifest

----------------------------------------------------------------------------
(* Properties of the builder registry and the strategies, under SpecBuild *)

\* C4: when a strategy's scope ends, its build directory is gone if automatic
\* cleanup is enabled and is still there if it is disabled, whatever step the
\* strategy had reached and whether or not a step had failed.
C4_CleanupOnExit ==
    last.op = "exit" => (last.builddir \in dirs <=> ~factory.automatic_cleanup)

\* the scope of a strategy whose step failed has ended, with cleanup enabled
C4_Witness ==
    /\ last.op = "exit" /\ last.st = "Failed"
    /\ factory.automatic_cleanup
    /\ last.builddir \notin dirs

\* C7: get_builder for a package name without a registered strategy raises
\* NoBuilderPresentException and constructs nothing: no instance, no build
\* directory.
C7_NoBuilderNoInstance ==
    [][(last'.op = "get_builder" /\ last'.pkg.pkgname \notin DOMAIN Registry) =>
           /\ last'.exc = "NoBuilderPresentException"
           /\ builders' = builders
           /\ dirs' = dirs]_vars

\* get_builder has refused newlib
C7_Witness ==
    /\ last.op = "get_builder" /\ last.pkg.pkgname = "newlib"
    /\ last.exc = "NoBuilderPresentException"
    /\ builders = << >>

LastBuilder == builders[last.builddir]
LastConfigure == last.executed[1]

\* C8: the GCC strategy's configure command, for every target: with
\* "prebuild" set it has --without-headers and --enable-languages=c and not
\* --enable-languages=c,c++; it has --enable-languages=c,c++ exactly when
\* "c++" is set and "prebuild" is not.
C8_GccPrebuildLanguages ==
    (last.op = "build" /\ LastBuilder.cls = "GCCBuilder") =>
        /\ "prebuild" \in LastBuilder.flags =>
               /\ In(LastConfigure, "--without-headers")
               /\ In(LastConfigure, "--enable-languages=c")
               /\ ~In(LastConfigure, "--enable-languages=c,c++")
        /\ In(LastConfigure, "--enable-languages=c,c++") <=>
               ("c++" \in LastBuilder.flags /\ "prebuild" \notin LastBuilder.flags)

\* gcc configured for cortex-m4 with both flags set
C8_Witness ==
    /\ last.op = "build" /\ LastBuilder.cls = "GCCBuilder"
    /\ LastBuilder.flags = {"c++", "prebuild"}
    /\ factory.target = "cortex-m4"
    /\ In(LastConfigure, "--enable-languages=c")

\* C9: for a target that is not a named table entry, the configure command
\* of the Binutils and of the GCC strategy has --target=<target>.
C9_TargetVerbatim ==
    (last.op = "build" /\ factory.target \notin NamedTargets) =>
        In(LastConfigure, "--target=" \o factory.target)

====
